---- MODULE Spec2Model ----
(***************************************************************************)
(* The terminal widget of the portfolio site: the TypingEngine             *)
(* (scripts/js/terminal/typing-engine.js) and the TerminalController       *)
(* (scripts/js/terminal/terminal-controller.js) that drives it; and two    *)
(* objects of the site's core, the StateStore and the EventBus             *)
(* (scripts/js/core/event-bus.js).                                         *)
(*                                                                         *)
(* JavaScript runs one task at a time, so every action below is one task   *)
(* of the event loop (an event handler or a timer callback) together with  *)
(* the promise continuations it makes runnable: microtasks run before the  *)
(* next task.  Delays are not modelled: any pending timer may be the next  *)
(* to fire.  Math.random() is an input of the action that draws it.        *)
(***************************************************************************)
EXTENDS Integers, Sequences, FiniteSets, TLC

VARIABLES
    snippetCount,  \* this.snippets.length, fixed at construction
    eng,           \* the TypingEngine's fields
    out,           \* outputElement.textContent, a sequence of characters
    ctl,           \* the TerminalController's fields
    prom,          \* the promise of the typeText call that started the session
    snd,           \* window.soundManager: "absent", or isEnabled as "enabled"/"disabled"
    last,          \* the operation that made this state (history)
    store,         \* the StateStore's state and history
    bus            \* the EventBus's listeners

vars == <<snippetCount, eng, out, ctl, prom, snd, last, store, bus>>

----------------------------------------------------------------------------
(* Bounds and inputs *)

MaxSnippets == 2
MaxLen == 2
MaxCooldowns == 2
MaxUnderflow == 2
MaxChanges == 3
MaxSubscriptions == 2
MaxCalls == 2

Chars == {"a", " ", "\n"}
WrongChars == {"q", "a"}

\* The values Math.random() decides in one call of _typeCharacters: whether
\* the error branch is taken, and which wrong character it types.
Draws ==
    {[err |-> FALSE, wrong |-> "q"]} \cup {[err |-> TRUE, wrong |-> w] : w \in WrongChars}

NoDraw == [err |-> FALSE, wrong |-> "q"]

\* Math.random() is called only in _typeCharacters, which a typeText call
\* reaches only on an idle engine: a task that calls typeText while the
\* engine is typing draws nothing.
DrawsOfTypeText(typing) == IF typing THEN {NoDraw} ELSE Draws

Texts == UNION {[1..n -> Chars] : n \in 0..MaxLen}

Letters == <<"a", "b", "c", "d", "e">>

\* window.codeSnippets[i].code: pairwise different, a letter and a newline.
SnippetCode(i) == <<Letters[(i % 5) + 1], "\n">>

\* A timer of the engine is the callback it runs, with the text and index its
\* closure holds: kind "next" calls _typeCharacters, "backspace" and "retype"
\* are the two nested callbacks of _simulateError.  eng.pending is the set of
\* engine timers that are scheduled and have not run; eng.currentTimeout is
\* the one the field names.  (The field keeps the id of a timer that has
\* fired; clearing such an id does nothing, so a fired timer is NoTimer here.)
NoTimer == [kind |-> "none", text |-> <<>>, index |-> 0]

\* The promise made by the typeText call that started the current session:
\* its text argument and whether resolve() was called.  typos, plain and
\* intruded are history: the run had a simulated error, had a normal emission,
\* saw a typeText call that was rejected.  History is kept when track is set,
\* which it is in the specification of the engine alone.
NoPromise ==
    [text |-> <<>>, status |-> "none", track |-> FALSE,
     typos |-> FALSE, plain |-> FALSE, intruded |-> FALSE]

----------------------------------------------------------------------------
(* Sound cues *)

SoundSettings == {"absent", "enabled", "disabled"}

\* _playKeypressSound, _playBackspaceSound, _playEnterSound, the completion
\* sound of _completeTyping and the startup sound of startDemo: the cue is
\* played when there is a sound manager and it is enabled.  S.cues lists the
\* cues played by the running task.
\* (mutant) the sound calls without the test for a missing sound manager
playCue_NoNullCheck(S, cue) ==
    CASE S.snd = "absent" -> [S EXCEPT !.raised = TRUE]
      [] S.snd = "enabled" -> [S EXCEPT !.cues = Append(@, cue)]
      [] OTHER -> S

playCue(S, cue) ==
    IF S.snd = "enabled" THEN [S EXCEPT !.cues = Append(@, cue)] ELSE S

\* Characters of the classes that _typeCharacters types without a cue:
\* space, [.!?;] and capitals.
SilentChars == {" ", ".", "!", "?", ";", "A"}

\* The cue _typeCharacters plays on reaching character c.
charCue(S, c) ==
    IF c = "\n" THEN playCue(S, "enter")
    ELSE IF c \in SilentChars THEN S
    ELSE playCue(S, "keypress")

----------------------------------------------------------------------------
(* TerminalController: rotation timers and the completion callback *)

\* ctl.typingCompleteTimer says that the field holds a timer; ctl.holdTimers
\* counts the hold timers that are scheduled and have not run.  (The interval
\* autoRotateTimer is never set by this version of the controller.)

\* (mutant) scheduleNextRotation that does not look at the three conditions
scheduleNextRotation_Unconditional(S) ==
    [S EXCEPT !.ctl.typingCompleteTimer = TRUE,
              !.ctl.holdTimers = IF S.ctl.typingCompleteTimer THEN @ ELSE @ + 1]

\* (mutant) clearRotationTimers that forgets the hold timer
clearRotationTimers_KeepsHold(S) == S

clearRotationTimers(S) ==
    IF S.ctl.typingCompleteTimer
    THEN [S EXCEPT !.ctl.typingCompleteTimer = FALSE, !.ctl.holdTimers = @ - 1]
    ELSE S

scheduleNextRotation(S) ==
    LET S1 == clearRotationTimers(S)
    IN  IF S1.ctl.autoRotate /\ ~S1.ctl.isUserInteracting /\ ~S1.ctl.isPaused
        THEN [S1 EXCEPT !.ctl.typingCompleteTimer = TRUE, !.ctl.holdTimers = @ + 1]
        ELSE S1

onTypingComplete(S) == scheduleNextRotation([S EXCEPT !.ctl.state = "completed"])

----------------------------------------------------------------------------
(* TypingEngine.  The delay of a scheduled callback (baseSpeed, variation,   *)
(* character class, random pause) only decides when it runs, which the      *)
(* model leaves open.                                                       *)

\* this.currentTimeout = setTimeout(callback, delay)
setTimeout(S, kind, text, index) ==
    LET t == [kind |-> kind, text |-> text, index |-> index]
    IN  [S EXCEPT !.eng.currentTimeout = t, !.eng.pending = @ \cup {t}]

\* if (this.currentTimeout) { clearTimeout(this.currentTimeout); this.currentTimeout = null }
clearTimeout(S) ==
    [S EXCEPT !.eng.pending = @ \ {S.eng.currentTimeout}, !.eng.currentTimeout = NoTimer]

\* (mutant) _completeTyping that leaves the session active
_completeTyping_StaysActive(S) ==
    LET S1 == playCue(S, "complete")
    IN  CASE S1.eng.onComplete = "resolve" -> [S1 EXCEPT !.prom.status = "resolved"]
          [] S1.eng.onComplete = "controller" -> onTypingComplete(S1)
          [] OTHER -> S1

_completeTyping(S) ==
    LET S1 == playCue([S EXCEPT !.eng.isTyping = FALSE], "complete")
    IN  CASE S1.eng.onComplete = "resolve" -> [S1 EXCEPT !.prom.status = "resolved"]
          [] S1.eng.onComplete = "controller" -> onTypingComplete(S1)
          [] OTHER -> S1

_simulateError(S, text, index, wrong) ==
    setTimeout(playCue([S EXCEPT !.out = Append(@, wrong), !.prom.typos = S.prom.track],
                       "keypress"),
               "backspace", text, index)

\* (mutant) _typeCharacters that starts an error on a newline as well
_typeCharacters_ErrorOnNewline(S, text, index, d) ==
    IF ~S.eng.isTyping \/ S.eng.isPaused THEN S
    ELSE IF index >= Len(text) THEN _completeTyping(S)
    ELSE LET S1 == charCue(S, text[index + 1])
         IN  IF d.err
             THEN _simulateError(S1, text, index, d.wrong)
             ELSE setTimeout([S1 EXCEPT !.out = Append(@, text[index + 1]),
                                        !.prom.plain = S.prom.track],
                             "next", text, index + 1)

_typeCharacters(S, text, index, d) ==
    IF ~S.eng.isTyping \/ S.eng.isPaused THEN S
    ELSE IF index >= Len(text) THEN _completeTyping(S)
    ELSE LET S1 == charCue(S, text[index + 1])
         IN  IF d.err /\ text[index + 1] # "\n"
             THEN _simulateError(S1, text, index, d.wrong)
             ELSE setTimeout([S1 EXCEPT !.out = Append(@, text[index + 1]),
                                        !.prom.plain = S.prom.track],
                             "next", text, index + 1)

\* (mutant) the backspace that removes nothing
errorBackspace_KeepsWrongChar(S, text, index) ==
    setTimeout(S, "retype", text, index)

\* The first timer callback of _simulateError: backspace.
errorBackspace(S, text, index) ==
    setTimeout(playCue([S EXCEPT !.out = IF Len(@) = 0 THEN @
                                         ELSE SubSeq(@, 1, Len(@) - 1)],
                       "backspace"),
               "retype", text, index)

\* (mutant) the retype that goes on with the same cursor
errorRetype_SameCursor(S, text, index) ==
    setTimeout(playCue([S EXCEPT !.out = Append(@, text[index + 1])], "keypress"),
               "next", text, index)

\* The second timer callback of _simulateError: the correct character.
errorRetype(S, text, index) ==
    setTimeout(playCue([S EXCEPT !.out = Append(@, text[index + 1])], "keypress"),
               "next", text, index + 1)

\* The pending engine timer t fires.
fireTimer(S, t, d) ==
    LET S1 == [S EXCEPT !.eng.pending = @ \ {t},
                        !.eng.currentTimeout = IF @ = t THEN NoTimer ELSE @]
    IN  CASE t.kind = "next" -> _typeCharacters(S1, t.text, t.index, d)
          [] t.kind = "backspace" -> errorBackspace(S1, t.text, t.index)
          [] t.kind = "retype" -> errorRetype(S1, t.text, t.index)
          [] OTHER -> S

\* (mutant) typeText without the "Already typing" guard
typeText_NoGuard(S, text, d) ==
    _typeCharacters(
        [S EXCEPT !.eng.isTyping = TRUE,
                  !.eng.isPaused = FALSE,
                  !.eng.onComplete = "resolve",
                  !.eng.onError = "reject",
                  !.out = <<>>,
                  !.ret = "accepted",
                  !.prom = [NoPromise EXCEPT !.text = text, !.status = "pending",
                                            !.track = S.prom.track]],
        text, 0, d)

typeText(S, text, d) ==
    IF S.eng.isTyping
    THEN [S EXCEPT !.ret = "rejected", !.prom.intruded = S.prom.track]
    ELSE _typeCharacters(
             [S EXCEPT !.eng.isTyping = TRUE,
                       !.eng.isPaused = FALSE,
                       !.eng.onComplete = "resolve",
                       !.eng.onError = "reject",
                       !.out = <<>>,
                       !.ret = "accepted",
                       !.prom = [NoPromise EXCEPT !.text = text, !.status = "pending",
                                            !.track = S.prom.track]],
             text, 0, d)

\* (mutant) pause without the test for an active session
pause_NoGuard(S) == clearTimeout([S EXCEPT !.eng.isPaused = TRUE])

\* (mutant) pause that leaves the scheduled callback in place
pause_KeepsTimer(S) ==
    IF S.eng.isTyping THEN [S EXCEPT !.eng.isPaused = TRUE] ELSE S

pause(S) ==
    IF S.eng.isTyping THEN clearTimeout([S EXCEPT !.eng.isPaused = TRUE]) ELSE S

resume(S, d) ==
    IF S.eng.isTyping /\ S.eng.isPaused
    THEN LET S1 == [S EXCEPT !.eng.isPaused = FALSE]
             currentText == S.out
             fullText == S.eng.targetText
         IN  IF Len(currentText) < Len(fullText)
             THEN _typeCharacters(S1, fullText, Len(currentText), d)
             ELSE S1
    ELSE S

\* (mutant) stop that keeps isPaused
stop_KeepsPaused(S) == clearTimeout([S EXCEPT !.eng.isTyping = FALSE])

\* (mutant) stop that settles the session's promise
stop_CallsOnComplete(S) ==
    LET S1 == clearTimeout([S EXCEPT !.eng.isTyping = FALSE, !.eng.isPaused = FALSE])
    IN  IF S.eng.isTyping /\ S1.eng.onComplete = "resolve"
        THEN [S1 EXCEPT !.prom.status = "resolved"]
        ELSE S1

\* (mutant) stop that leaves the scheduled callback in place
stop_LeavesTimer(S) == [S EXCEPT !.eng.isTyping = FALSE, !.eng.isPaused = FALSE]

stop(S) == clearTimeout([S EXCEPT !.eng.isTyping = FALSE, !.eng.isPaused = FALSE])

----------------------------------------------------------------------------
(* TerminalController *)

\* this.snippets[this.currentSnippetIndex] is defined
HasSnippet(S) ==
    ~S.ctl.indexIsNaN /\ S.ctl.currentSnippetIndex >= 0
        /\ S.ctl.currentSnippetIndex < snippetCount

\* The end of typeCurrentSnippet, run when the awaited promise settles:
\* the catch block on rejection, then the finally block.
afterAwait(S, rejected) ==
    [S EXCEPT !.ctl.state = IF rejected THEN "error" ELSE @,
              !.ctl.isTyping = FALSE]

\* After destroy() this.elements is {}: setState() throws on
\* this.elements.container.classList, first in the try block, then again in
\* the catch block; the finally block runs and the async call rejects.
typeCurrentSnippet(S, d) ==
    IF ~HasSnippet(S) THEN S
    ELSE IF S.ctl.destroyed THEN [S EXCEPT !.ctl.isTyping = FALSE, !.raised = TRUE]
    ELSE LET S1 == [S EXCEPT !.ctl.isTyping = TRUE, !.ctl.state = "typing", !.out = <<>>]
             S2 == typeText(S1, SnippetCode(S1.ctl.currentSnippetIndex), d)
         IN  IF S2.ret = "rejected" THEN afterAwait(S2, TRUE)
             ELSE IF S2.prom.status = "resolved" THEN afterAwait(S2, FALSE)
             ELSE S2

\* (mutant) startDemo that throws on an empty snippet list
startDemo_Throws(S, d) ==
    IF snippetCount = 0
    THEN [S EXCEPT !.raised = TRUE]
    ELSE typeCurrentSnippet(playCue(S, "startup"), d)

\* With no snippets: console.warn and a plain return.
startDemo(S, d) ==
    IF snippetCount = 0 THEN S ELSE typeCurrentSnippet(playCue(S, "startup"), d)

nextSnippet(S, d) ==
    LET S1 == clearRotationTimers(S)
        i == S1.ctl.currentSnippetIndex
    IN  typeCurrentSnippet(
            IF snippetCount = 0 \/ S1.ctl.indexIsNaN
            THEN [S1 EXCEPT !.ctl.indexIsNaN = TRUE]
            ELSE [S1 EXCEPT !.ctl.currentSnippetIndex = (i + 1) % snippetCount],
            d)

\* (mutant) previousSnippet without the wrap at index 0
previousSnippet_NoWrap(S, d) ==
    typeCurrentSnippet(
        [clearRotationTimers(S) EXCEPT !.ctl.currentSnippetIndex = @ - 1], d)

previousSnippet(S, d) ==
    LET S1 == clearRotationTimers(S)
        i == S1.ctl.currentSnippetIndex
    IN  typeCurrentSnippet(
            IF S1.ctl.indexIsNaN THEN S1
            ELSE [S1 EXCEPT !.ctl.currentSnippetIndex =
                                IF i = 0 THEN snippetCount - 1 ELSE i - 1],
            d)

restartCurrentSnippet(S, d) == typeCurrentSnippet(clearRotationTimers(S), d)

\* (mutant) setSnippet without the bounds check
setSnippet_NoBoundsCheck(S, index, d) ==
    typeCurrentSnippet(
        [clearRotationTimers(S) EXCEPT !.ctl.currentSnippetIndex = index,
                                       !.ctl.indexIsNaN = FALSE],
        d)

\* (mutant) setSnippet that clamps an out-of-range index into range
setSnippet_Clamps(S, index, d) ==
    IF snippetCount = 0 THEN S
    ELSE typeCurrentSnippet(
             [clearRotationTimers(S) EXCEPT
                  !.ctl.currentSnippetIndex =
                      IF index < 0 THEN 0
                      ELSE IF index >= snippetCount THEN snippetCount - 1 ELSE index,
                  !.ctl.indexIsNaN = FALSE],
             d)

setSnippet(S, index, d) ==
    IF index >= 0 /\ index < snippetCount
    THEN typeCurrentSnippet(
             [clearRotationTimers(S) EXCEPT !.ctl.currentSnippetIndex = index,
                                            !.ctl.indexIsNaN = FALSE],
             d)
    ELSE S

handleUserInteraction(S, d) ==
    LET S1 == clearRotationTimers([S EXCEPT !.ctl.isUserInteracting = TRUE])
        S2 == nextSnippet(S1, d)
    IN  [S2 EXCEPT !.ctl.cooldownTimers = @ + 1]

\* After destroy() this.typingEngine is null: the call on it throws.
pauseDemo(S) ==
    IF S.ctl.destroyed THEN [S EXCEPT !.ctl.isPaused = TRUE, !.raised = TRUE]
    ELSE LET S1 == pause([S EXCEPT !.ctl.isPaused = TRUE])
         IN  [clearRotationTimers(S1) EXCEPT !.ctl.state = "paused"]

resumeDemo(S, d) ==
    IF S.ctl.destroyed THEN [S EXCEPT !.ctl.isPaused = FALSE, !.raised = TRUE]
    ELSE LET S1 == resume([S EXCEPT !.ctl.isPaused = FALSE], d)
         IN  [S1 EXCEPT !.ctl.state = "typing"]

togglePause(S, d) == IF S.ctl.isPaused THEN resumeDemo(S, d) ELSE pauseDemo(S)

setAutoRotate(S, enabled) ==
    LET S1 == [S EXCEPT !.ctl.autoRotate = enabled]
    IN  IF enabled THEN S1 ELSE clearRotationTimers(S1)

\* destroy(): the rotation timers are cleared and the engine destroyed
\* (stop(), callbacks dropped); removeEventListener() is given a function
\* that was never registered and removes nothing; the references are
\* cleared.  A second destroy() throws on this.elements.container.
destroy(S) ==
    IF S.ctl.destroyed THEN [clearRotationTimers(S) EXCEPT !.raised = TRUE]
    ELSE [stop(clearRotationTimers(S)) EXCEPT !.eng.onComplete = "none",
                                              !.eng.onError = "none",
                                              !.ctl.destroyed = TRUE]

toggleSound(S) ==
    CASE S.snd = "enabled" -> [S EXCEPT !.snd = "disabled"]
      [] S.snd = "disabled" -> [S EXCEPT !.snd = "enabled"]
      [] OTHER -> S

\* The engine timer fires under the controller: when it completes the session,
\* the typeCurrentSnippet call awaiting the promise runs its finally block.
engineTimerTask(S, t, d) ==
    LET S1 == fireTimer(S, t, d)
    IN  IF S.prom.status = "pending" /\ S1.prom.status = "resolved"
        THEN afterAwait(S1, FALSE)
        ELSE S1

----------------------------------------------------------------------------
(* StateStore.  The state is looked at through two of its leaf paths; no    *)
(* middleware or subscriber is registered and nothing is persisted.         *)

Paths == {"terminal.isTyping", "terminal.isPaused"}

maxHistorySize == 50

get(T, path) == T.state[path]

_setByPath(T, path, value) == [T EXCEPT !.state[path] = value]

\* called by set() after _setByPath(): this.get(path) reads the value just set
_addToHistory(T, path, value) ==
    LET previousValue == get(T, path)
        h == Append(T.history, [path |-> path, value |-> previousValue,
                                previousValue |-> previousValue])
    IN  [T EXCEPT !.history = IF Len(h) > maxHistorySize THEN Tail(h) ELSE h]

set(T, path, value) == _addToHistory(_setByPath(T, path, value), path, value)

undo(T) ==
    IF Len(T.history) = 0 THEN [T EXCEPT !.ret = "false"]
    ELSE LET lastChange == T.history[Len(T.history)]
             T1 == [T EXCEPT !.history = SubSeq(@, 1, Len(@) - 1)]
         IN  [_setByPath(T1, lastChange.path, lastChange.previousValue)
                 EXCEPT !.ret = "true"]

\* new StateStore(): getInitialState(), nothing persisted to load
NewStore ==
    [state |-> [p \in Paths |-> FALSE], history |-> <<>>, op |-> "init", ret |-> "none"]

----------------------------------------------------------------------------
(* EventBus.  An event name is a sequence of characters.  A callback is     *)
(* known by what it does when called: it returns, or it throws.  bus.calls  *)
(* counts the invocations of each listener's callback, bus.subs keeps the   *)
(* event, the callback and the once option of each subscription.            *)

Names == {<<"a">>, <<"b">>, <<"a", "*">>}

Callbacks == {"returns", "throws"}

Priorities == {0, 1}

maxListeners == 50

\* event.includes('*')
includesStar(event) == \E i \in 1..Len(event) : event[i] = "*"

\* new RegExp('^' + pattern.replace(/\*/g, '.*') + '$').test(event)
RECURSIVE _matchesPattern(_, _)
_matchesPattern(event, pattern) ==
    IF pattern = <<>> THEN event = <<>>
    ELSE IF pattern[1] = "*"
         THEN \/ _matchesPattern(event, Tail(pattern))
              \/ event # <<>> /\ _matchesPattern(Tail(event), pattern)
         ELSE event # <<>> /\ event[1] = pattern[1]
                /\ _matchesPattern(Tail(event), Tail(pattern))

\* this.events.get(event) / this.wildcardListeners.get(pattern); a key with
\* no entry and the empty sequence are the same
eventsGet(B, event) == IF event \in DOMAIN B.events THEN B.events[event] ELSE <<>>

wildcardGet(B, pattern) ==
    IF pattern \in DOMAIN B.wildcardListeners THEN B.wildcardListeners[pattern] ELSE <<>>

\* listeners.findIndex(l => l.id === id), 0 for -1
findIndex(listeners, id) ==
    IF \E i \in 1..Len(listeners) : listeners[i].id = id
    THEN CHOOSE i \in 1..Len(listeners) :
             listeners[i].id = id /\ \A j \in 1..(i - 1) : listeners[j].id # id
    ELSE 0

\* listeners.splice(index, 1)
splice(listeners, index) ==
    SubSeq(listeners, 1, index - 1) \o SubSeq(listeners, index + 1, Len(listeners))

\* the listener object made by on() and _addWildcardListener(); the id of
\* _generateId() is new
newListener(B, event, callback, once, priority) ==
    [id |-> B.nextId, callback |-> callback, once |-> once, priority |-> priority]

subscribed(B, event, callback, once) ==
    [B EXCEPT !.nextId = @ + 1,
              !.subs = @ @@ (B.nextId :> [event |-> event, callback |-> callback,
                                          once |-> once])]

_addWildcardListener(B, pattern, callback, once, priority) ==
    LET listener == newListener(B, pattern, callback, once, priority)
    IN  subscribed([B EXCEPT !.wildcardListeners[pattern] = Append(@, listener)],
                   pattern, callback, once)

_removeWildcardListener(B, pattern, id) ==
    LET listeners == wildcardGet(B, pattern)
        index == findIndex(listeners, id)
    IN  IF index = 0 THEN B
        ELSE [B EXCEPT !.wildcardListeners[pattern] = splice(listeners, index)]

on(B, event, callback, once, priority) ==
    IF includesStar(event)
    THEN _addWildcardListener(B, event, callback, once, priority)
    ELSE LET listeners == eventsGet(B, event)
             listener == newListener(B, event, callback, once, priority)
             lower == {i \in 1..Len(listeners) : listeners[i].priority < priority}
             insertIndex == IF lower = {} THEN Len(listeners) + 1
                            ELSE CHOOSE i \in lower : \A j \in lower : i <= j
         IN  IF Len(listeners) >= maxListeners THEN B
             ELSE subscribed(
                      [B EXCEPT !.events[event] =
                           SubSeq(listeners, 1, insertIndex - 1) \o <<listener>>
                               \o SubSeq(listeners, insertIndex, Len(listeners))],
                      event, callback, once)

once(B, event, callback, priority) == on(B, event, callback, TRUE, priority)

\* (mutant) off that removes nothing
off_RemovesNothing(B, event, id) == B

off(B, event, id) ==
    IF includesStar(event) THEN _removeWildcardListener(B, event, id)
    ELSE LET listeners == eventsGet(B, event)
             index == findIndex(listeners, id)
         IN  IF index = 0 THEN B
             ELSE [B EXCEPT !.events[event] = splice(listeners, index)]

\* The loop of _executeListeners over its copy of the listeners, from the
\* i-th on: the callback is called; when it returns, a once listener is
\* removed with off(event, id), event being the emitted name; when it
\* throws, the catch block follows and the removal is skipped.
RECURSIVE executeFrom(_, _, _, _)
executeFrom(B, copy, i, event) ==
    IF i > Len(copy) THEN B
    ELSE LET listener == copy[i]
             B1 == [B EXCEPT !.calls[listener.id] = @ + 1]
             B2 == IF listener.callback = "returns" /\ listener.once
                   THEN off(B1, event, listener.id)
                   ELSE B1
         IN  executeFrom(B2, copy, i + 1, event)

_executeListeners(B, listeners, event) == executeFrom(B, listeners, 1, event)

\* The loop of emit() over the patterns of this.wildcardListeners.
RECURSIVE emitWildcards(_, _, _)
emitWildcards(B, patterns, event) ==
    IF patterns = {} THEN B
    ELSE LET pattern == CHOOSE q \in patterns : TRUE
             B1 == IF wildcardGet(B, pattern) # <<>> /\ _matchesPattern(event, pattern)
                   THEN _executeListeners(B, wildcardGet(B, pattern), event)
                   ELSE B
         IN  emitWildcards(B1, patterns \ {pattern}, event)

emit(B, event) ==
    LET listeners == eventsGet(B, event)
        B1 == IF listeners # <<>> THEN _executeListeners(B, listeners, event) ELSE B
    IN  emitWildcards(B1, DOMAIN B1.wildcardListeners, event)

\* new EventBus()
NewBus ==
    [events |-> [e \in {n \in Names : ~includesStar(n)} |-> <<>>],
     wildcardListeners |-> [e \in {n \in Names : includesStar(n)} |-> <<>>],
     nextId |-> 1,
     subs |-> <<>>,
     calls |-> [i \in 1..(MaxSubscriptions + 1) |-> 0],
     op |-> "init"]

----------------------------------------------------------------------------
(* State after construction *)

NewEngine ==
    [isTyping |-> FALSE, isPaused |-> FALSE, currentTimeout |-> NoTimer, pending |-> {},
     onComplete |-> "none", onError |-> "none", targetText |-> <<>>]

\* new TerminalController(...): the constructor's init() has registered the
\* controller's callbacks on the engine and, with autoStart and at least one
\* snippet, has scheduled startDemo.
NewController(n) ==
    [currentSnippetIndex |-> 0, indexIsNaN |-> FALSE,
     isTyping |-> FALSE, isPaused |-> FALSE, isUserInteracting |-> FALSE,
     typingCompleteTimer |-> FALSE, holdTimers |-> 0, autoRotate |-> TRUE,
     state |-> "none", cooldownTimers |-> 0, autoStartTimer |-> n > 0,
     destroyed |-> FALSE]

NoOp ==
    [op |-> "init", index0 |-> 0, arg |-> 0, ret |-> "none", raised |-> FALSE, cues |-> <<>>]

\* The program's state at the start of a task.  ret is what a typeText call
\* of the task returned; raised says that the operation surfaced an error to
\* its caller (a throw, or for an async method a rejected promise).
St ==
    [eng |-> eng, out |-> out, ctl |-> ctl, prom |-> prom, snd |-> snd,
     ret |-> "none", raised |-> FALSE, cues |-> <<>>]

\* The task ends in state S.
Becomes(S, op, arg) ==
    /\ eng' = S.eng
    /\ out' = S.out
    /\ ctl' = S.ctl
    /\ prom' = S.prom
    /\ snd' = S.snd
    /\ last' = [op |-> op, index0 |-> ctl.currentSnippetIndex, arg |-> arg,
                ret |-> S.ret, raised |-> S.raised, cues |-> S.cues]
    /\ UNCHANGED <<snippetCount, store, bus>>

Init ==
    /\ snippetCount \in 0..MaxSnippets
    /\ eng = [NewEngine EXCEPT !.onComplete = "controller", !.onError = "controller"]
    /\ out = <<>>
    /\ ctl = NewController(snippetCount)
    /\ prom = NoPromise
    /\ snd \in SoundSettings
    /\ last = NoOp
    /\ store = NewStore
    /\ bus = NewBus

----------------------------------------------------------------------------
(* Tasks of the page: timers and event handlers *)

\* setTimeout(() => this.startDemo(), 1000) of init()
AutoStart ==
    /\ ctl.autoStartTimer
    /\ \E d \in DrawsOfTypeText(eng.isTyping) :
          Becomes(startDemo([St EXCEPT !.ctl.autoStartTimer = FALSE], d), "startDemo", 0)

\* the public startDemo()
StartDemo ==
    \E d \in DrawsOfTypeText(eng.isTyping) : Becomes(startDemo(St, d), "startDemo", 0)

\* a pending setTimeout callback of the engine
EngineTimer ==
    \E t \in eng.pending, d \in Draws : Becomes(engineTimerTask(St, t, d), "engineTimer", 0)

\* setTimeout(() => { this.isUserInteracting = false }, 5000) of a click
Cooldown ==
    /\ ctl.cooldownTimers > 0
    /\ Becomes([St EXCEPT !.ctl.cooldownTimers = @ - 1, !.ctl.isUserInteracting = FALSE],
               "cooldown", 0)

\* click on the container
Click ==
    /\ ctl.cooldownTimers < MaxCooldowns
    /\ \E d \in DrawsOfTypeText(eng.isTyping) :
          Becomes(handleUserInteraction(St, d), "click", 0)

\* keydown ' ' or ArrowRight
KeyNext ==
    \E d \in DrawsOfTypeText(eng.isTyping) : Becomes(nextSnippet(St, d), "nextSnippet", 0)

\* keydown ArrowLeft
\* (with an empty snippet list every ArrowLeft lowers the index by one more:
\* the model follows it down to -MaxUnderflow)
KeyPrevious ==
    /\ ctl.currentSnippetIndex > -MaxUnderflow
    /\ \E d \in DrawsOfTypeText(eng.isTyping) :
          Becomes(previousSnippet(St, d), "previousSnippet", 0)

\* keydown 'r'
KeyRestart ==
    \E d \in DrawsOfTypeText(eng.isTyping) :
        Becomes(restartCurrentSnippet(St, d), "restartCurrentSnippet", 0)

\* keydown 'p' or Pause
KeyPause == \E d \in Draws : Becomes(togglePause(St, d), "togglePause", 0)

\* window blur, or visibilitychange to hidden
Blur == Becomes(pauseDemo(St), "pauseDemo", 0)

\* window focus, or visibilitychange to visible
Focus == \E d \in Draws : Becomes(resumeDemo(St, d), "resumeDemo", 0)

\* keydown 's', or a click on the sound toggle
KeySound == Becomes(toggleSound(St), "toggleSound", 0)

\* the public setAutoRotate(enabled)
SetAutoRotate ==
    \E enabled \in BOOLEAN :
        Becomes(setAutoRotate(St, enabled), "setAutoRotate", IF enabled THEN 1 ELSE 0)

\* the public setSnippet(index)
SetSnippet ==
    \E index \in -1..snippetCount, d \in DrawsOfTypeText(eng.isTyping) :
        Becomes(setSnippet(St, index, d), "setSnippet", index)

\* The callback of the hold timer set by scheduleNextRotation.  It is not a
\* disjunct of Next: no reachable state has typingCompleteTimer set
\* (HoldTimerNeverScheduled), so the task never runs.
HoldTimer ==
    /\ ctl.holdTimers > 0
    /\ \E d \in Draws :
          Becomes(nextSnippet([St EXCEPT !.ctl.typingCompleteTimer = FALSE,
                                         !.ctl.holdTimers = @ - 1], d),
                  "holdTimer", 0)

HoldTimerNeverScheduled ==
    ~ctl.typingCompleteTimer /\ ctl.holdTimers = 0 /\ ctl.state # "completed"

Next ==
    \/ AutoStart
    \/ StartDemo
    \/ EngineTimer
    \/ Cooldown
    \/ Click
    \/ KeyNext
    \/ KeyPrevious
    \/ KeyRestart
    \/ KeyPause
    \/ Blur
    \/ Focus
    \/ KeySound
    \/ SetSnippet

Spec == Init /\ [][Next]_vars

----------------------------------------------------------------------------
(* The controller with its rotation setting: the page's events and the     *)
(* public setAutoRotate, with the sound manager present and left enabled.  *)

InitRotation == Init /\ snd = "enabled"

NextRotation ==
    \/ AutoStart
    \/ StartDemo
    \/ EngineTimer
    \/ Cooldown
    \/ Click
    \/ KeyNext
    \/ KeyPrevious
    \/ KeyRestart
    \/ KeyPause
    \/ Blur
    \/ Focus
    \/ SetAutoRotate
    \/ SetSnippet

SpecRotation == InitRotation /\ [][NextRotation]_vars

----------------------------------------------------------------------------
(* The controller and its engine when a write to the output element may    *)
(* throw (the element is gone, or its setter fails).  No try/catch of the   *)
(* engine surrounds a write, so the exception leaves the running function  *)
(* at the write: nothing after it in that function runs.                   *)

\* _typeCharacters(text, index) whose write of the character (or of the
\* wrong character of _simulateError) throws: the guards and the cue of the
\* character come before the write, the timer for the next step after it.
throwIn_typeCharacters(S, text, index) ==
    IF ~S.eng.isTyping \/ S.eng.isPaused THEN S
    ELSE IF index >= Len(text) THEN _completeTyping(S)
    ELSE [charCue(S, text[index + 1]) EXCEPT !.raised = TRUE]

\* The pending engine timer t fires and the write of its callback throws:
\* an uncaught exception of a timer callback, which nothing handles.
throwInTimer(S, t) ==
    LET S1 == [S EXCEPT !.eng.pending = @ \ {t},
                        !.eng.currentTimeout = IF @ = t THEN NoTimer ELSE @]
    IN  IF t.kind = "next"
        THEN LET S2 == throwIn_typeCharacters(S1, t.text, t.index)
             IN  IF S.prom.status = "pending" /\ S2.prom.status = "resolved"
                 THEN afterAwait(S2, FALSE)
                 ELSE S2
        ELSE [S1 EXCEPT !.raised = TRUE]

\* typeText(text) whose first character's write throws: the exception leaves
\* the executor of new Promise, which rejects the promise.
throwInTypeText(S, text) ==
    IF S.eng.isTyping
    THEN [S EXCEPT !.ret = "rejected", !.prom.intruded = S.prom.track]
    ELSE LET S1 == throwIn_typeCharacters(
                       [S EXCEPT !.eng.isTyping = TRUE,
                                 !.eng.isPaused = FALSE,
                                 !.eng.onComplete = "resolve",
                                 !.eng.onError = "reject",
                                 !.out = <<>>,
                                 !.ret = "accepted",
                                 !.prom = [NoPromise EXCEPT !.text = text,
                                                           !.status = "pending",
                                                           !.track = S.prom.track]],
                       text, 0)
         IN  IF S1.raised
             THEN [S1 EXCEPT !.prom.status = "rejected", !.ret = "rejected",
                             !.raised = FALSE]
             ELSE S1

\* typeCurrentSnippet() around such a typeText call: the rejection reaches
\* the catch block, then the finally block.
throwInTypeCurrentSnippet(S) ==
    IF ~HasSnippet(S) THEN S
    ELSE LET S1 == [S EXCEPT !.ctl.isTyping = TRUE, !.ctl.state = "typing", !.out = <<>>]
             S2 == throwInTypeText(S1, SnippetCode(S1.ctl.currentSnippetIndex))
         IN  IF S2.ret = "rejected" THEN afterAwait(S2, TRUE)
             ELSE IF S2.prom.status = "resolved" THEN afterAwait(S2, FALSE)
             ELSE S2

InitFault == Init /\ snd = "enabled"

\* a pending engine timer fires and the write throws
EngineTimerThrows ==
    \E t \in eng.pending : Becomes(throwInTimer(St, t), "engineTimerThrows", 0)

\* keydown 'r' and the write of the first character throws
KeyRestartThrows ==
    Becomes(throwInTypeCurrentSnippet(clearRotationTimers(St)), "restartThrows", 0)

NextFault ==
    \/ AutoStart
    \/ EngineTimer
    \/ KeyNext
    \/ KeyRestart
    \/ KeyPause
    \/ EngineTimerThrows
    \/ KeyRestartThrows

SpecFault == InitFault /\ [][NextFault]_vars

----------------------------------------------------------------------------
(* The controller's life up to and after destroy().                         *)

InitDestroy == Init /\ snd = "enabled"

\* the public destroy()
Destroy == Becomes(destroy(St), "destroy", 0)

NextDestroy ==
    \/ AutoStart
    \/ EngineTimer
    \/ Cooldown
    \/ Click
    \/ KeyNext
    \/ KeyPause
    \/ Blur
    \/ Focus
    \/ Destroy

SpecDestroy == InitDestroy /\ [][NextDestroy]_vars

----------------------------------------------------------------------------
(* The EventBus alone, driven through on(), once(), the unsubscribe         *)
(* functions they return, and emit().                                       *)

BusOn ==
    /\ bus.nextId <= MaxSubscriptions
    /\ \E event \in Names, callback \in Callbacks, priority \in Priorities :
          bus' = [on(bus, event, callback, FALSE, priority) EXCEPT !.op = "on"]
    /\ UNCHANGED <<snippetCount, eng, out, ctl, prom, snd, last, store>>

BusOnce ==
    /\ bus.nextId <= MaxSubscriptions
    /\ \E event \in Names, callback \in Callbacks, priority \in Priorities :
          bus' = [once(bus, event, callback, priority) EXCEPT !.op = "once"]
    /\ UNCHANGED <<snippetCount, eng, out, ctl, prom, snd, last, store>>

\* the function returned by on(): () => this.off(event, listener.id)
BusOff ==
    /\ \E id \in DOMAIN bus.subs :
          bus' = [off(bus, bus.subs[id].event, id) EXCEPT !.op = "off"]
    /\ UNCHANGED <<snippetCount, eng, out, ctl, prom, snd, last, store>>

BusEmit ==
    /\ \A id \in DOMAIN bus.calls : bus.calls[id] < MaxCalls
    /\ \E event \in Names : bus' = [emit(bus, event) EXCEPT !.op = "emit"]
    /\ UNCHANGED <<snippetCount, eng, out, ctl, prom, snd, last, store>>

NextBus ==
    \/ BusOn
    \/ BusOnce
    \/ BusOff
    \/ BusEmit

----------------------------------------------------------------------------
(* The engine alone, driven through its own methods; nothing else writes   *)
(* the output element.                                                     *)

InitEngine ==
    /\ snippetCount = 0
    /\ eng = NewEngine
    /\ out = <<>>
    /\ ctl = NewController(0)
    /\ prom = [NoPromise EXCEPT !.track = TRUE]
    /\ snd \in SoundSettings
    /\ last = NoOp
    /\ store = NewStore
    /\ bus = NewBus

EngineTypeText ==
    \E text \in Texts, d \in Draws : Becomes(typeText(St, text, d), "typeText", 0)

EnginePause == Becomes(pause(St), "pause", 0)

EngineResume == \E d \in Draws : Becomes(resume(St, d), "resume", 0)

EngineStop == Becomes(stop(St), "stop", 0)

EngineFire ==
    \E t \in eng.pending, d \in Draws : Becomes(fireTimer(St, t, d), "engineTimer", 0)

NextEngine ==
    \/ EngineTypeText
    \/ EnginePause
    \/ EngineResume
    \/ EngineStop
    \/ EngineFire

SpecEngine == InitEngine /\ [][NextEngine]_vars

----------------------------------------------------------------------------
(* The StateStore alone, driven through set() and undo().                   *)

terminal == <<snippetCount, eng, out, ctl, prom, snd, last>>

InitStore == InitEngine /\ snd = "enabled"

StoreSet ==
    /\ Len(store.history) < MaxChanges
    /\ \E path \in Paths, value \in BOOLEAN :
          store' = [set(store, path, value) EXCEPT !.op = "set", !.ret = "none"]
    /\ UNCHANGED <<terminal, bus>>

StoreUndo ==
    /\ store' = [undo(store) EXCEPT !.op = "undo"]
    /\ UNCHANGED <<terminal, bus>>

NextStore ==
    \/ StoreSet
    \/ StoreUndo

SpecStore == InitStore /\ [][NextStore]_vars

InitBus == InitEngine /\ snd = "enabled"

SpecBus == InitBus /\ [][NextBus]_vars

----------------------------------------------------------------------------
(* Claims about the engine alone (SpecEngine) *)

\* C1: when the promise of typeText(text) resolves, the output element's text
\* equals text, whatever mix of normal emissions and simulated errors the run
\* was made of.
C1_CompletionInvariant == prom.status = "resolved" => out = prom.text

\* a resolved run of a non-empty text that had both a normal emission and a
\* simulated error
C1_Witness ==
    /\ prom.status = "resolved"
    /\ Len(prom.text) > 0
    /\ prom.typos
    /\ prom.plain

\* C7: while the engine is paused (an active session, pause() called and
\* resume() not yet), no engine timer is pending and the output text does
\* not change.
C7_PausedIsFrozen ==
    /\ []((eng.isTyping /\ eng.isPaused) => eng.currentTimeout = NoTimer)
    /\ [][(eng.isTyping /\ eng.isPaused /\ eng'.isTyping /\ eng'.isPaused) => out' = out]_vars

\* paused in the middle of a run
C7_Witness ==
    /\ eng.isTyping
    /\ eng.isPaused
    /\ last.op = "pause"
    /\ Len(out) > 0
    /\ Len(out) < Len(prom.text)

\* C8: typeText() while a session is active rejects and leaves the session
\* untouched (isTyping, isPaused, output text, pending timer, callbacks), and
\* the running session still completes with its own text.
C8_RejectLeavesSession ==
    /\ [][(eng.isTyping /\ EngineTypeText)
            => /\ last'.ret = "rejected"
               /\ eng' = eng
               /\ out' = out
               /\ prom'.status = prom.status
               /\ prom'.text = prom.text]_vars
    /\ []((prom.intruded /\ prom.status = "resolved") => out = prom.text)

\* a session that saw a rejected typeText call and then completed
C8_Witness ==
    /\ prom.intruded
    /\ prom.status = "resolved"
    /\ Len(prom.text) > 0
    /\ out = prom.text

\* the session was stopped: its promise is pending and the engine is idle
Abandoned == prom.status = "pending" /\ ~eng.isTyping

\* C12: stop() on an engine with an active session leaves the session's
\* promise pending, plays no completion cue and leaves no engine timer; from
\* then on, until typeText starts another session, no step resolves the
\* promise, writes the output, plays a cue, schedules an engine timer or
\* touches the controller's rotation state.
C12_StoppedSessionIsDead ==
    /\ [][(last'.op = "stop" /\ eng.isTyping)
            => /\ prom'.status = "pending"
               /\ ~eng'.isTyping
               /\ eng'.pending = {}
               /\ out' = out
               /\ ctl' = ctl
               /\ last'.cues = <<>>]_vars
    /\ [][(Abandoned /\ last'.op # "typeText")
            => /\ prom' = prom
               /\ out' = out
               /\ ctl' = ctl
               /\ eng'.pending = {}
               /\ last'.cues = <<>>]_vars

\* a session stopped in the middle of its text, and a later call of resume()
C12_Witness ==
    /\ Abandoned
    /\ last.op = "resume"
    /\ Len(out) > 0
    /\ Len(out) < Len(prom.text)

\* C13: stop() is total and idempotent: called in any state of the engine
\* (never started, stopped, paused, active) it raises nothing and leaves
\* isTyping false, isPaused false and no timer pending, without touching the
\* output or the promise; a second stop() changes nothing more, and stop()
\* right after stop() leaves the state as it is.
C13_StopIdempotent ==
    LET S1 == stop(St)
        S2 == stop(S1)
    IN  /\ ~S1.raised
        /\ ~S1.eng.isTyping
        /\ ~S1.eng.isPaused
        /\ S1.eng.currentTimeout = NoTimer
        /\ S1.eng.pending = {}
        /\ S1.out = out
        /\ S1.prom = prom
        /\ S2 = S1
        /\ last.op = "stop" => S1 = St

\* stop() was just called on a session paused in the middle of its text
C13_Witness ==
    /\ last.op = "stop"
    /\ prom.status = "pending"
    /\ ~eng.isTyping
    /\ ~eng.isPaused
    /\ prom.plain
    /\ Len(out) < Len(prom.text)

\* C16: the engine has at most one pending timer, the one currentTimeout
\* names; none is pending while the engine is idle or paused, and pause() and
\* stop() leave none.
C16_AtMostOneEngineTimer ==
    /\ Cardinality(eng.pending) <= 1
    /\ eng.pending \subseteq {eng.currentTimeout}
    /\ (~eng.isTyping \/ eng.isPaused) => eng.pending = {}
    /\ last.op \in {"pause", "stop"} => eng.pending = {}

\* the post-correction timer of a simulated error is the one pending timer
C16_Witness ==
    /\ Cardinality(eng.pending) = 1
    /\ eng.currentTimeout.kind = "retype"
    /\ last.op = "engineTimer"

----------------------------------------------------------------------------
(* Claims about the controller driving the engine (Spec) *)

\* C2: with autoRotate on, no user interaction and no pause, once the engine
\* has typed the snippet to completion the controller schedules the hold timer
\* whose firing advances to the next snippet.
C2_HoldTimerAfterCompletion ==
    [][(/\ prom.status = "pending"
        /\ prom'.status = "resolved"
        /\ ctl'.autoRotate
        /\ ~ctl'.isUserInteracting
        /\ ~ctl'.isPaused) => ctl'.typingCompleteTimer]_vars

\* nextSnippet, previousSnippet or setSnippet with a valid index
Navigates ==
    \/ KeyNext
    \/ KeyPrevious
    \/ (SetSnippet /\ last'.arg >= 0 /\ last'.arg < snippetCount)

\* C3: a navigation while the engine is typing stops the session in flight and
\* starts a new session on the snippet at the new index; it does not end in
\* the error phase.
C3_NavigationRestartsTyping ==
    [][(snippetCount >= 1 /\ eng.isTyping /\ Navigates)
         => /\ ctl'.state = "typing"
            /\ eng'.isTyping
            /\ prom'.status = "pending"
            /\ prom'.text = SnippetCode(ctl'.currentSnippetIndex)]_vars

\* C4: after nextSnippet() no engine timer of the previous snippet fires: the
\* timer that fires next types the snippet that is now current.
C4_NoStaleTimerAfterNext ==
    [][(snippetCount >= 2 /\ last.op = "nextSnippet" /\ EngineTimer)
         => eng.currentTimeout.text = SnippetCode(ctl.currentSnippetIndex)]_vars

\* C5: resuming a paused session continues emission from the same cursor: the
\* resume leaves the next step of the session's own text scheduled.
C5_ResumeContinuesFromCursor ==
    [][(eng.isTyping /\ eng.isPaused /\ Focus)
         => /\ ~eng'.isPaused
            /\ eng'.isTyping
                 => /\ eng'.currentTimeout # NoTimer
                    /\ eng'.currentTimeout.text = prom.text]_vars

\* C6: after pauseDemo then resumeDemo during typing the session reaches
\* completion: a resumed session is never left active with nothing scheduled.
C6_ResumedSessionCompletes ==
    (last.op = "resumeDemo" /\ eng.isTyping /\ ~eng.isPaused) => eng.currentTimeout # NoTimer

\* C9: with at least one snippet, 0 <= currentSnippetIndex < snippetCount.
C9_IndexInRange ==
    snippetCount >= 1
        => /\ ~ctl.indexIsNaN
           /\ ctl.currentSnippetIndex >= 0
           /\ ctl.currentSnippetIndex < snippetCount

\* setSnippet(snippetCount) was just called while the last snippet was current
C9_Witness ==
    /\ snippetCount >= 2
    /\ last.op = "setSnippet"
    /\ last.arg = snippetCount
    /\ ctl.currentSnippetIndex = snippetCount - 1

\* C10: with two or more snippets, nextSnippet() from the last index gives 0
\* and previousSnippet() from 0 gives snippetCount-1; elsewhere they add and
\* subtract exactly 1.
C10_WrapAround ==
    snippetCount >= 2
        => /\ last.op \in {"nextSnippet", "click"}
                => ctl.currentSnippetIndex =
                       IF last.index0 = snippetCount - 1 THEN 0 ELSE last.index0 + 1
           /\ last.op = "previousSnippet"
                => ctl.currentSnippetIndex =
                       IF last.index0 = 0 THEN snippetCount - 1 ELSE last.index0 - 1

\* previousSnippet() from index 0 and, before it, nextSnippet() to index 0
C10_Witness ==
    /\ snippetCount >= 2
    /\ last.op = "previousSnippet"
    /\ last.index0 = 0
    /\ ctl.currentSnippetIndex = snippetCount - 1

\* C11: setSnippet(index) with index < 0 or index >= snippetCount is a
\* complete no-op: the index, the phase, the hold timer, every other field of
\* the controller, the engine's session, the output and the promise are
\* unchanged, and no error is raised.
C11_OutOfRangeIsNoOp ==
    [][(last'.op = "setSnippet" /\ (last'.arg < 0 \/ last'.arg >= snippetCount))
         => /\ ctl' = ctl
            /\ eng' = eng
            /\ out' = out
            /\ prom' = prom
            /\ ~last'.raised]_vars

\* setSnippet(-1) was just called in the middle of a typing session
C11_Witness ==
    /\ last.op = "setSnippet"
    /\ last.arg = -1
    /\ eng.isTyping
    /\ Len(out) > 0
    /\ ctl.state = "typing"

\* C14: a manual navigation issued while the phase is error ends with the
\* engine typing the snippet at the new index and the phase typing.
C14_NavigationFromErrorSucceeds ==
    [][(snippetCount >= 1 /\ ctl.state = "error" /\ Navigates)
         => /\ ctl'.state = "typing"
            /\ eng'.isTyping
            /\ prom'.status = "pending"
            /\ prom'.text = SnippetCode(ctl'.currentSnippetIndex)]_vars

\* the operations that navigate: keyboard, click, setSnippet, restart, start
ManualNavigation ==
    {"nextSnippet", "previousSnippet", "setSnippet", "click", "restartCurrentSnippet",
     "startDemo"}

\* C15: once the phase is error it stays error, and the index stays where it
\* is, until a manual navigation: pause, resume, blur, focus, the sound
\* toggle and timers do not move the phase out of error.
C15_ErrorPersists ==
    [][(ctl.state = "error" /\ last'.op \notin ManualNavigation)
         => /\ ctl'.state = "error"
            /\ ctl'.currentSnippetIndex = ctl.currentSnippetIndex]_vars

C19_EmptyStartFails ==
    [][(last'.op = "startDemo" /\ snippetCount = 0)
         => /\ last'.raised
            /\ eng' = eng
            /\ prom' = prom
            /\ ctl'.currentSnippetIndex = ctl.currentSnippetIndex
            /\ ctl'.state = ctl.state]_vars

\* C19 (amended): startDemo() with an empty snippet list returns normally,
\* raising nothing; it starts no session, plays no cue and changes nothing:
\* index, phase, every other field of the controller, engine, output.
C19_EmptyStartIsNoOp ==
    [][(last'.op = "startDemo" /\ snippetCount = 0)
         => /\ ~last'.raised
            /\ last'.ret = "none"
            /\ last'.cues = <<>>
            /\ eng' = eng
            /\ prom' = prom
            /\ out' = out
            /\ ctl' = ctl]_vars

\* startDemo() was just called on a controller with no snippets, after a
\* blur had set the phase to paused
C19_Witness ==
    /\ snippetCount = 0
    /\ last.op = "startDemo"
    /\ ~last.raised
    /\ ctl.state = "paused"
    /\ ~eng.isTyping

\* what a run shows apart from sound: engine and controller fields with
\* their timers, output text, promise, and what the operation returned
Core(S) ==
    [eng |-> S.eng, out |-> S.out, ctl |-> S.ctl, prom |-> S.prom,
     ret |-> S.ret, raised |-> S.raised]

\* the state at hand as it would be without a sound manager
Silent == [St EXCEPT !.snd = "absent"]

\* C20: sound is inert.  In every reachable state, whatever the sound
\* setting, every operation, timer firing and random draw leads to the same
\* engine and controller state, output text, timers and result as it does
\* with no sound manager; so runs of the same operations that differ only in
\* the sound setting (enabled, disabled, absent) agree at every step.
C20_SoundIsInert ==
    [](/\ Core(pauseDemo(St)) = Core(pauseDemo(Silent))
       /\ Core(toggleSound(St)) = Core(toggleSound(Silent))
       /\ Core(stop(St)) = Core(stop(Silent))
       /\ \A d \in DrawsOfTypeText(eng.isTyping) :
             /\ Core(startDemo(St, d)) = Core(startDemo(Silent, d))
             /\ Core(nextSnippet(St, d)) = Core(nextSnippet(Silent, d))
             /\ Core(previousSnippet(St, d)) = Core(previousSnippet(Silent, d))
             /\ Core(restartCurrentSnippet(St, d)) = Core(restartCurrentSnippet(Silent, d))
             /\ Core(handleUserInteraction(St, d)) = Core(handleUserInteraction(Silent, d))
             /\ \A index \in -1..snippetCount :
                   Core(setSnippet(St, index, d)) = Core(setSnippet(Silent, index, d))
       /\ \A d \in Draws :
             /\ Core(togglePause(St, d)) = Core(togglePause(Silent, d))
             /\ Core(resumeDemo(St, d)) = Core(resumeDemo(Silent, d))
             /\ \A t \in eng.pending :
                   Core(engineTimerTask(St, t, d)) = Core(engineTimerTask(Silent, t, d)))

\* with sound enabled, startDemo() has just played the startup cue and the
\* cue of the first character
C20_Witness ==
    /\ snd = "enabled"
    /\ last.op = "startDemo"
    /\ last.cues = <<"startup", "keypress">>
    /\ eng.isTyping

\* the operations of the controller that are not callbacks of the engine
ControllerOps ==
    ManualNavigation \cup {"togglePause", "pauseDemo", "resumeDemo", "toggleSound", "cooldown"}

\* C18: the output text is written only by the engine's session: a
\* controller operation in which the engine starts no session leaves the
\* output text as it was.
C18_OnlyEngineWritesOutput ==
    [][(last'.op \in ControllerOps /\ last'.ret # "accepted") => out' = out]_vars

\* C21: whenever the engine finishes typing the current snippet (the
\* typeText promise resolves), the controller's phase becomes completed.
C21_CompletionSetsPhase ==
    [][(prom.status = "pending" /\ prom'.status = "resolved")
         => ctl'.state = "completed"]_vars

\* C22: whenever the engine has an active session, the text it is typing is
\* the code of the snippet at currentSnippetIndex (so after two navigations
\* back to back the one active session types the snippet two places on).
C22_SessionTypesCurrentSnippet ==
    (snippetCount >= 1 /\ eng.isTyping) => prom.text = SnippetCode(ctl.currentSnippetIndex)

IsPrefix(p, t) == Len(p) <= Len(t) /\ p = SubSeq(t, 1, Len(p))

\* C23: at every point of an active session the output text is a prefix of
\* the session's text, or such a prefix followed by one wrong character of
\* an error simulation.
C23_OutputIsPrefix ==
    eng.isTyping
        => \/ IsPrefix(out, prom.text)
           \/ /\ Len(out) >= 1
              /\ IsPrefix(SubSeq(out, 1, Len(out) - 1), prom.text)
              /\ out[Len(out)] \in WrongChars

\* C24: right after a manual navigation through nextSnippet() or
\* previousSnippet(), from the keyboard or by a click, isUserInteracting is
\* true.
C24_NavigationSetsInteracting ==
    (snippetCount >= 1 /\ last.op \in {"nextSnippet", "previousSnippet", "click"})
        => ctl.isUserInteracting

\* C25: isUserInteracting stays true for the whole cooldown window counted
\* from the most recent click.  Every click sets a timer of the same delay,
\* so the timers fire in the order of the clicks, and as long as one of them
\* is pending the window of the most recent click is still open: the flag is
\* true whenever a cooldown timer is pending.
C25_CooldownFromLastClick == ctl.cooldownTimers > 0 => ctl.isUserInteracting

----------------------------------------------------------------------------
(* Claims about the rotation setting (SpecRotation) *)

\* a pending hold timer implies the three conditions of an auto-advance
Guarded(S) ==
    S.ctl.holdTimers > 0
        => S.ctl.autoRotate /\ ~S.ctl.isUserInteracting /\ ~S.ctl.isPaused

----------------------------------------------------------------------------
(* Claims about pausing and resuming (Spec) *)

Preserved(S, T) ==
    /\ T.ctl.state = S.ctl.state
    /\ T.ctl.currentSnippetIndex = S.ctl.currentSnippetIndex
    /\ T.out = S.out
    /\ T.eng = S.eng
    /\ T.prom = S.prom

\* C28: a window blur followed at once by a focus restores the phase the
\* controller had before the blur, with the index, the output and the engine
\* session (its flags and its pending timer) as they were; a focus arriving
\* when the controller is not paused changes nothing.
C28_BlurFocusRestores ==
    \A d \in Draws :
        /\ Preserved(St, resumeDemo(pauseDemo(St), d))
        /\ ~ctl.isPaused => /\ Preserved(St, resumeDemo(St, d))
                             /\ resumeDemo(St, d).ctl = ctl

\* the same, from a state where a session is running in phase typing
C28_MidRun ==
    (ctl.state = "typing" /\ eng.isTyping /\ ~eng.isPaused /\ ~ctl.isPaused)
        => \A d \in Draws : Preserved(St, resumeDemo(pauseDemo(St), d))

----------------------------------------------------------------------------
(* Claims about the error simulation (SpecEngine) *)

\* C29: an error simulation for the character at cursor c replaces the
\* normal emission of that character and goes in this order: a wrong
\* lowercase letter is appended and the backspace timer set; when that timer
\* fires the wrong letter is removed and the retype timer set; when that one
\* fires the correct character is appended and typing goes on with cursor
\* c + 1.  It is never started for a newline.
C29_ErrorSimulationOrder ==
    [][LET t == eng.currentTimeout
           u == eng'.currentTimeout
       IN  /\ (u.kind = "backspace" /\ u # t)
                 => /\ last'.op \in {"typeText", "engineTimer"}
                    /\ last'.op = "engineTimer" => (t.kind = "next" /\ u.index = t.index)
                    /\ last'.op = "typeText" => u.index = 0
                    /\ u.text[u.index + 1] # "\n"
                    /\ out' = SubSeq(u.text, 1, u.index) \o <<out'[Len(out')]>>
                    /\ out'[Len(out')] \in WrongChars
                    /\ eng'.pending = {u}
           /\ (last'.op = "engineTimer" /\ t.kind = "backspace")
                 => /\ Len(out) = t.index + 1
                    /\ out[Len(out)] \in WrongChars
                    /\ out' = SubSeq(t.text, 1, t.index)
                    /\ u = [kind |-> "retype", text |-> t.text, index |-> t.index]
                    /\ eng'.pending = {u}
           /\ (last'.op = "engineTimer" /\ t.kind = "retype")
                 => /\ out = SubSeq(t.text, 1, t.index)
                    /\ out' = SubSeq(t.text, 1, t.index + 1)
                    /\ u = [kind |-> "next", text |-> t.text, index |-> t.index + 1]
                    /\ eng'.pending = {u}
           /\ (u.kind = "retype" /\ u # t)
                 => (last'.op = "engineTimer" /\ t.kind = "backspace")
      ]_vars

\* the second character of a text has just been retyped after a simulated
\* error, the first one having been typed plainly
C29_Witness ==
    /\ last.op = "engineTimer"
    /\ prom.typos /\ prom.plain
    /\ eng.currentTimeout = [kind |-> "next", text |-> prom.text, index |-> 2]
    /\ out = prom.text
    /\ Len(out) = 2

\* a simulated wrong character is the last thing in the output
WrongCharVisible == eng.isTyping /\ ~IsPrefix(out, prom.text)

\* C30: a pause() while a simulated wrong character is visible leaves it
\* visible, and the resume() that follows sets the engine going again, so
\* that the wrong character is removed and the correct one typed: after
\* that resume() a timer of the session is pending.
C30_ResumeCorrectsWrongChar ==
    [][/\ (last'.op = "pause" /\ WrongCharVisible) => out' = out
       /\ (last'.op = "resume" /\ WrongCharVisible /\ eng.isPaused)
             => eng'.pending # {}]_vars

----------------------------------------------------------------------------
(* Claims about the engine's edge cases (SpecEngine) *)

\* C31: typeText("") completes at once: the call leaves the session
\* inactive with no timer scheduled, the completion cue played (when the
\* sound manager is there and enabled), the promise resolved and the
\* output empty.
C31_EmptyTextCompletes ==
    (last.op = "typeText" /\ last.ret = "accepted" /\ prom.text = <<>>)
        => /\ ~eng.isTyping
           /\ eng.pending = {}
           /\ eng.currentTimeout = NoTimer
           /\ prom.status = "resolved"
           /\ out = <<>>
           /\ last.cues = IF snd = "enabled" THEN <<"complete">> ELSE <<>>

\* typeText("") has just been accepted with the sound enabled
C31_Witness ==
    /\ last.op = "typeText" /\ last.ret = "accepted"
    /\ prom.text = <<>> /\ prom.status = "resolved"
    /\ snd = "enabled" /\ last.cues = <<"complete">>

\* C32: with the sound enabled, every character emitted normally plays
\* exactly one cue: the enter cue for a newline and the keypress cue for
\* every other character, spaces, punctuation and capitals included.  A
\* normal emission is the step of typeText() or of the character timer that
\* appends the character and sets the timer for the next one.
C32_OneCuePerCharacter ==
    [][LET t == eng.currentTimeout
           u == eng'.currentTimeout
       IN  (/\ snd = "enabled"
            /\ \/ last'.op = "typeText" /\ last'.ret = "accepted"
               \/ last'.op = "engineTimer" /\ t.kind = "next"
            /\ u.kind = "next" /\ u # t)
               => last'.cues = <<IF u.text[u.index] = "\n" THEN "enter" ELSE "keypress">>
      ]_vars

\* C34: the engine's pause() with no active session, and its resume() with
\* no active session or with a session that is not paused, change nothing:
\* isTyping, isPaused, the pending timer, the output and the session's
\* promise are as before.
C34_PauseResumeNoOps ==
    [][(\/ last'.op = "pause" /\ ~eng.isTyping
        \/ last'.op = "resume" /\ (~eng.isTyping \/ ~eng.isPaused))
          => (eng' = eng /\ out' = out /\ prom' = prom)]_vars

\* resume() has been called on a running session that was not paused: its
\* timer is still pending
C34_Witness ==
    /\ last.op = "resume"
    /\ eng.isTyping /\ ~eng.isPaused
    /\ eng.pending # {}

----------------------------------------------------------------------------
(* Claims about a failing output element (SpecFault) *)

\* C33: if a write to the output element throws while a character is being
\* emitted, in typeText() or in a timer callback, the engine stops: the
\* session becomes inactive with no timer left, the typeText promise
\* rejects and the controller's phase becomes error.
C33_WriteErrorStopsSession ==
    [][(/\ last'.op \in {"engineTimerThrows", "restartThrows"}
        /\ \/ last'.raised
           \/ prom.status # "rejected" /\ prom'.status = "rejected")
          => /\ ~eng'.isTyping
             /\ eng'.pending = {}
             /\ prom'.status = "rejected"
             /\ ctl'.state = "error"]_vars

\* the same for a write that throws inside typeText(): only the engine's
\* session is looked at
C33_InTypeText ==
    [][(last'.op = "restartThrows" /\ prom.status # "rejected" /\ prom'.status = "rejected")
          => ~eng'.isTyping]_vars

----------------------------------------------------------------------------
(* Claims about the controller's bookkeeping (Spec) *)

\* C35: the callbacks registered through onTypingComplete(cb) and
\* onTypingError(cb) before typeText() is called stay registered: no step
\* replaces them, so the run's completion or failure reaches them.
C35_CallbacksKept ==
    [][/\ eng.onComplete = "controller" => eng'.onComplete = "controller"
       /\ eng.onError = "controller" => eng'.onError = "controller"]_vars

\* C36: between tasks, when no continuation of a settled promise is waiting
\* to run, the controller's isTyping flag (what getState() reports) is true
\* exactly when the engine has an active session.
C36_IsTypingAgrees == ctl.isTyping = eng.isTyping

\* C37: with an empty snippet list, nextSnippet(), previousSnippet() and
\* restartCurrentSnippet() leave currentSnippetIndex at 0 and start no
\* typing session.
C37_EmptyListIndexStays ==
    snippetCount = 0
        => /\ ctl.currentSnippetIndex = 0 /\ ~ctl.indexIsNaN
           /\ ~eng.isTyping /\ prom.status = "none"

----------------------------------------------------------------------------
(* Claims about destroy() (SpecDestroy) *)

\* the controller's fields that a handler or a timer callback can change
Fields(c) ==
    <<c.currentSnippetIndex, c.indexIsNaN, c.isTyping, c.isPaused,
      c.isUserInteracting, c.state>>

\* C38: after destroy() nothing that the controller or its engine scheduled
\* or registered runs any more: no timer of theirs is left, and no timer
\* callback or event handler changes the controller, the engine or the
\* output, or throws.
C38_NothingRunsAfterDestroy ==
    [][ctl.destroyed
         => /\ Fields(ctl') = Fields(ctl)
            /\ eng' = eng
            /\ out' = out
            /\ ~last'.raised
            /\ ~ctl.autoStartTimer /\ ctl.cooldownTimers = 0
            /\ ctl.holdTimers = 0 /\ eng.pending = {}]_vars

\* what destroy() does cancel: the hold timer and the engine's timer
C38_CancelledTimers == ctl.destroyed => (ctl.holdTimers = 0 /\ eng.pending = {})

----------------------------------------------------------------------------
(* Claims about the StateStore (SpecStore) *)

\* C39: undo() undoes the last change: after set(path, v) on a store where
\* get(path) was u, undo() returns true and get(path) is u again; undo() on
\* an empty history returns false and changes nothing.
C39_UndoRestores ==
    /\ \A path \in Paths, v \in BOOLEAN :
          LET T == undo(set(store, path, v))
          IN  T.ret = "true" /\ get(T, path) = get(store, path)
    /\ Len(store.history) = 0
          => /\ undo(store).ret = "false"
             /\ undo(store).state = store.state
             /\ undo(store).history = store.history

\* the half that holds: undo() on an empty history
C39_EmptyHistory ==
    [][(store'.op = "undo" /\ Len(store.history) = 0)
          => (store'.ret = "false" /\ store'.state = store.state
                /\ store'.history = <<>>)]_vars

----------------------------------------------------------------------------
(* Claims about the EventBus (SpecBus) *)

\* the listener with this id is in one of the bus's lists
Registered(B, id) ==
    \/ \E e \in DOMAIN B.events : findIndex(B.events[e], id) # 0
    \/ \E q \in DOMAIN B.wildcardListeners : findIndex(B.wildcardListeners[q], id) # 0

\* C40: a listener subscribed with once(event, cb), event being an exact
\* name or a pattern with *, is invoked at most once over any sequence of
\* emit() calls and is no longer registered after its first invocation.
C40_OnceAtMostOnce ==
    \A id \in DOMAIN bus.subs :
        bus.subs[id].once
            => /\ bus.calls[id] <= 1
               /\ bus.calls[id] = 1 => ~Registered(bus, id)

\* the case that holds: an exact event name and a callback that returns
C40_ExactReturning ==
    \A id \in DOMAIN bus.subs :
        (/\ bus.subs[id].once
         /\ ~includesStar(bus.subs[id].event)
         /\ bus.subs[id].callback = "returns")
            => /\ bus.calls[id] <= 1
               /\ bus.calls[id] = 1 => ~Registered(bus, id)

====
